---------------------------- MODULE Spec2Model ----------------------------
(***************************************************************************)
(* A model of the DAG traversal engine of daggyr (src/src/dag.rs) and of   *)
(* its trivial executor (src/src/executors/noop_executor.rs).              *)
(*                                                                         *)
(* The DAG object is the four fields vertices, keymap, ready and visiting. *)
(* Every method of DAG<T> is an operator from the object (a record `self`) *)
(* and the arguments to the object after the call and the value returned,  *)
(* and an action applies it to the state variables.                        *)
(*                                                                         *)
(* Vertex indices are those of the code: the vertex array is a function on *)
(* 0 .. len-1.                                                             *)
(*                                                                         *)
(* parents_outstanding is a usize.  `+= 1` and `-= 1` on it panic in a     *)
(* build with overflow checks (debug) and wrap modulo 2^64 in a build      *)
(* without (release).  The counter is stored as the representative of its  *)
(* value modulo 2^64 of least absolute value, so that -1 stands for        *)
(* usize::MAX = 2^64 - 1; +1, -1 and the comparison with 0 are then the    *)
(* plain integer ones within the bounds of the model.                      *)
(*                                                                         *)
(* The executor is a task that receives the messages of one channel in     *)
(* order; each arm of its match is an action.  The messages it sends are   *)
(* kept, in the order of the sends, in `sent`.  The DAG and the executor   *)
(* do not share state: a specification moves one and leaves the other as   *)
(* it was created.                                                         *)
(***************************************************************************)
EXTENDS Integers, Sequences, FiniteSets, TLC

\* ------------------------------------------------------------------ bounds

\* The callers use NumKeys identifiers (values of the type T of DAG<T>), so a
\* DAG has at most NumKeys vertices.
NumKeys == 3

KeyOrder == <<"a", "b", "c", "d", "e", "f">>

Keys == {KeyOrder[n] : n \in 1 .. NumKeys}

\* No counter is incremented beyond MaxOutstanding.
MaxOutstanding == 2

\* No counter is decremented more than MaxWrapped times below 0.
MaxWrapped == 1

\* add_vertices is called with at most MaxBatch keys.
MaxBatch == 2

\* At most MaxMessages messages are sent to an executor.
MaxMessages == 3

\* The messages name either of two tasks, of either of two runs.
TaskIds == {1, 2}

RunIds == {0, 1}

\* ------------------------------------------------------------------- state

VARIABLES
    vertices,         \* DAG::vertices: index -> Vertex
    keymap,           \* DAG::keymap: key -> index
    ready,            \* DAG::ready: set of indices
    visiting,         \* DAG::visiting: set of indices
    panicked,         \* a call has panicked: the program is over
    overflow_checks,  \* the build: TRUE panics on usize overflow, FALSE wraps
    phase,            \* position of the traversal driver (the tests' loops)
    visit_order,      \* the keys visit_next has returned to the driver, in order
    additions,        \* the kinds of addition the driver has made since its reset()
    requeued,         \* the keys the runner has set Queued again after an error
    backend,          \* the executor started on the channel: "local" or "cluster"
    exe_msgs,         \* the executor's inbound channel: the messages not yet received
    exe_senders,      \* a sender of the inbound channel still exists
    exe_pc,           \* position of the executor task: in its loop, or returned
    posted,           \* every message ever sent to the executor, in order
    sent,             \* the messages the executor has sent, in program order
    running_tasks,    \* start_executor's map from (run_id, task_id) to a kill channel
    watchers,         \* the watch_job tasks spawned, in the order of their spawning
    receivers         \* the channels out of the executor whose receiver still exists

dagvars == <<vertices, keymap, ready, visiting>>
clustervars == <<running_tasks, watchers, receivers>>
execvars == <<backend, exe_msgs, exe_senders, exe_pc, posted, sent, running_tasks, watchers,
             receivers>>
enginevars == <<vertices, keymap, ready, visiting, panicked, overflow_checks, phase,
               visit_order, additions, requeued>>
vars == <<vertices, keymap, ready, visiting, panicked, overflow_checks, phase, visit_order,
         additions, requeued, backend, exe_msgs, exe_senders, exe_pc, posted, sent,
         running_tasks, watchers, receivers>>

\* enum State
State == {"Queued", "Running", "Completed", "Errored", "Killed"}

\* Values returned: Result<()>, Result<bool>, Option<T>, or a panic.
Ok(v) == [tag |-> "Ok", val |-> v]
Err(e) == [tag |-> "Err", val |-> e]
Some(k) == [tag |-> "Some", val |-> k]
None == [tag |-> "None", val |-> ""]
Panic == [tag |-> "Panic", val |-> ""]
Unit == "()"

\* The DAG object as one value.
Self == [vertices |-> vertices, keymap |-> keymap, ready |-> ready, visiting |-> visiting]

\* Vec::len of the vertex array.
len(self) == Cardinality(DOMAIN self.vertices)

\* Vec::push
push(vs, v) ==
    LET n == Cardinality(DOMAIN vs)
    IN  [i \in 0 .. n |-> IF i = n THEN v ELSE vs[i]]

\* HashMap::insert of a new key
insert(m, k, i) == [x \in DOMAIN m \cup {k} |-> IF x = k THEN i ELSE m[x]]

\* Vertex::new
Vertex_new(id) ==
    [id |-> id, children |-> {}, parents |-> {}, state |-> "Queued",
     parents_outstanding |-> 0]

\* DAG::new
new ==
    [vertices |-> [i \in {} |-> Vertex_new("")],
     keymap |-> [k \in {} |-> 0],
     ready |-> {},
     visiting |-> {}]

\* ------------------------------------------------------------- operations

\* add_vertex without the check for a key already present: the key is mapped
\* again, to a new vertex.
add_vertex_unchecked(self, key) ==
    LET idx == len(self)
    IN  [dag |-> [self EXCEPT !.keymap = insert(@, key, idx),
                              !.vertices = push(@, Vertex_new(key)),
                              !.ready = @ \cup {idx}],
         ret |-> Ok(Unit)]

\* DAG::add_vertex
add_vertex(self, key) ==
    IF key \in DOMAIN self.keymap
    THEN [dag |-> self, ret |-> Err("DuplicateKey")]
    ELSE LET idx == len(self)
         IN  [dag |-> [self EXCEPT !.keymap = insert(@, key, idx),
                                   !.vertices = push(@, Vertex_new(key)),
                                   !.ready = @ \cup {idx}],
              ret |-> Ok(Unit)]

\* DAG::add_vertices: add_vertex for each key in order, returning at the first error
RECURSIVE add_vertices(_, _)
add_vertices(self, keys) ==
    IF keys = <<>>
    THEN [dag |-> self, ret |-> Ok(Unit)]
    ELSE LET r == add_vertex(self, Head(keys))
         IN  IF r.ret.tag = "Err" THEN r ELSE add_vertices(r.dag, Tail(keys))

\* reset() seeding the ready set from the counters as they are, without
\* recomputing them from the parent sets.
reset_keeps_counters(self) ==
    [dag |-> [self EXCEPT
                !.ready = @ \cup {i \in DOMAIN self.vertices :
                                    self.vertices[i].parents_outstanding = 0}],
     ret |-> Ok(Unit)]

\* reset() emptying the ready and visiting sets before it seeds the ready set.
reset_clears_sets(self) ==
    [dag |-> [self EXCEPT
                !.vertices = [i \in DOMAIN @ |->
                                [@[i] EXCEPT !.parents_outstanding =
                                                Cardinality(self.vertices[i].parents)]],
                !.ready = {i \in DOMAIN self.vertices : self.vertices[i].parents = {}},
                !.visiting = {}],
     ret |-> Ok(Unit)]

\* DAG::reset
reset(self) ==
    [dag |-> [self EXCEPT
                !.vertices = [i \in DOMAIN @ |->
                                [@[i] EXCEPT !.parents_outstanding =
                                                Cardinality(self.vertices[i].parents)]],
                !.ready = @ \cup {i \in DOMAIN self.vertices : self.vertices[i].parents = {}}],
     ret |-> Ok(Unit)]

\* _has_path looking no further than the children of src.
has_path_direct(self, src, dst, seen) ==
    [found |-> src = dst \/ dst \in self.vertices[src].children, seen |-> seen]

\* DAG::_has_path: the depth-first search.  The result is the value returned
\* and the `seen` set as the call leaves it.
RECURSIVE has_path_dfs(_, _, _, _)
RECURSIVE has_path_children(_, _, _, _)
has_path_dfs(self, src, dst, seen) ==
    IF src = dst THEN [found |-> TRUE, seen |-> seen]
    ELSE IF src \in seen THEN [found |-> FALSE, seen |-> seen]
    ELSE IF dst \in self.vertices[src].children THEN [found |-> TRUE, seen |-> seen]
    ELSE has_path_children(self, self.vertices[src].children, dst, seen \cup {src})

\* The `for child in &self.vertices[src].children` loop of _has_path over the
\* children still to be tried (a HashSet is iterated in an arbitrary order).
has_path_children(self, todo, dst, seen) ==
    IF todo = {} THEN [found |-> FALSE, seen |-> seen]
    ELSE LET child == CHOOSE c \in todo : TRUE
             r == has_path_dfs(self, child, dst, seen)
         IN  IF r.found THEN r
             ELSE has_path_children(self, todo \ {child}, dst, r.seen)

\* DAG::has_path
has_path(self, src_key, dst_key) ==
    IF src_key \notin DOMAIN self.keymap \/ dst_key \notin DOMAIN self.keymap
    THEN Err("UnknownKey")
    ELSE Ok(has_path_dfs(self, self.keymap[src_key], self.keymap[dst_key], {}).found)

\* DAG::add_edge after its cycle check: the edge is inserted, the counter of
\* dst and the ready set are adjusted.
insert_edge_always_counts(self, src_key, dst_key) ==
    LET src == self.keymap[src_key]
        dst == self.keymap[dst_key]
        po  == self.vertices[dst].parents_outstanding + 1
    IN  [dag |-> [self EXCEPT
                   !.vertices = [i \in DOMAIN @ |->
                       [@[i] EXCEPT
                          !.children = IF i = src THEN @ \cup {dst} ELSE @,
                          !.parents = IF i = dst THEN @ \cup {src} ELSE @,
                          !.parents_outstanding = IF i = dst THEN po ELSE @]],
                   !.ready = IF po = 0 THEN @ \cup {dst} ELSE @ \ {dst}],
         ret |-> Ok(Unit)]

insert_edge(self, src_key, dst_key) ==
    LET src == self.keymap[src_key]
        dst == self.keymap[dst_key]
        inc == IF self.vertices[src].state = "Completed" THEN 0 ELSE 1
        po  == self.vertices[dst].parents_outstanding + inc
    IN  [dag |-> [self EXCEPT
                   !.vertices = [i \in DOMAIN @ |->
                       [@[i] EXCEPT
                          !.children = IF i = src THEN @ \cup {dst} ELSE @,
                          !.parents = IF i = dst THEN @ \cup {src} ELSE @,
                          !.parents_outstanding = IF i = dst THEN po ELSE @]],
                   !.ready = IF po = 0 THEN @ \cup {dst} ELSE @ \ {dst}],
         ret |-> Ok(Unit)]

\* add_edge asking has_path(src, dst) where the code asks has_path(dst, src).
add_edge_checks_forward(self, src_key, dst_key) ==
    LET p == has_path(self, src_key, dst_key)
    IN  IF p.tag = "Err" THEN [dag |-> self, ret |-> p]
        ELSE IF p.val THEN [dag |-> self, ret |-> Err("Cycle")]
        ELSE insert_edge(self, src_key, dst_key)

\* DAG::add_edge
add_edge(self, src_key, dst_key) ==
    LET p == has_path(self, dst_key, src_key)
    IN  IF p.tag = "Err" THEN [dag |-> self, ret |-> p]
        ELSE IF p.val THEN [dag |-> self, ret |-> Err("Cycle")]
        ELSE insert_edge(self, src_key, dst_key)

\* visit_next leaving the vertex it returns in the ready set.
visit_next_keeps_ready(self, idx) ==
    [dag |-> [self EXCEPT !.vertices[idx].state = "Running",
                          !.visiting = @ \cup {idx}],
     ret |-> Some(self.vertices[idx].id)]

\* DAG::visit_next, idx being the element `self.ready.iter().next()` yields
visit_next(self, idx) ==
    [dag |-> [self EXCEPT !.vertices[idx].state = "Running",
                          !.ready = @ \ {idx},
                          !.visiting = @ \cup {idx}],
     ret |-> Some(self.vertices[idx].id)]

\* DAG::visit_next: the values it can return, each with the object it leaves
\* (`self.ready.iter().next()` yields any element of a HashSet, or None).
visit_next_results(self) ==
    IF self.ready = {}
    THEN {[dag |-> self, ret |-> None]}
    ELSE {visit_next(self, idx) : idx \in self.ready}

\* The `for child in &children` loop of complete_visit over the children still
\* to be released.  `-= 1` on a counter that is 0 panics when the build checks
\* overflow and wraps when it does not.
RECURSIVE release_children(_, _, _)
release_children(self, todo, checks) ==
    IF todo = {} THEN [dag |-> self, ret |-> Ok(Unit)]
    ELSE LET child == CHOOSE c \in todo : TRUE
             po == self.vertices[child].parents_outstanding
         IN  IF po = 0 /\ checks
             THEN [dag |-> self, ret |-> Panic]
             ELSE release_children(
                    [self EXCEPT !.vertices[child].parents_outstanding = po - 1,
                                 !.ready = IF po - 1 = 0 THEN @ \cup {child} ELSE @],
                    todo \ {child}, checks)

\* complete_visit releasing the children of the vertex whether or not the visit
\* ended in an error.
complete_visit_always_releases(self, key, errored, checks) ==
    IF key \notin DOMAIN self.keymap THEN [dag |-> self, ret |-> Err("UnknownKey")]
    ELSE LET idx == self.keymap[key]
         IN  IF idx \notin self.visiting
             THEN [dag |-> self, ret |-> Err("NotVisiting")]
             ELSE LET taken == [self EXCEPT !.visiting = @ \ {idx}]
                  IN  IF taken.vertices[idx].state = "Completed"
                      THEN [dag |-> taken, ret |-> Ok(Unit)]
                      ELSE release_children(
                             [taken EXCEPT !.vertices[idx].state =
                                              IF errored THEN "Errored" ELSE "Completed"],
                             taken.vertices[idx].children, checks)

\* complete_visit looking at the state of the vertex before it looks at the
\* visiting set.
complete_visit_state_first(self, key, errored, checks) ==
    IF key \notin DOMAIN self.keymap THEN [dag |-> self, ret |-> Err("UnknownKey")]
    ELSE LET idx == self.keymap[key]
         IN  IF self.vertices[idx].state = "Completed"
             THEN [dag |-> self, ret |-> Ok(Unit)]
             ELSE IF idx \notin self.visiting
             THEN [dag |-> self, ret |-> Err("NotVisiting")]
             ELSE LET taken == [self EXCEPT !.visiting = @ \ {idx}]
                  IN  IF errored
                      THEN [dag |-> [taken EXCEPT !.vertices[idx].state = "Errored"],
                            ret |-> Ok(Unit)]
                      ELSE release_children(
                             [taken EXCEPT !.vertices[idx].state = "Completed"],
                             taken.vertices[idx].children, checks)

\* DAG::complete_visit
complete_visit(self, key, errored, checks) ==
    IF key \notin DOMAIN self.keymap THEN [dag |-> self, ret |-> Err("UnknownKey")]
    ELSE LET idx == self.keymap[key]
         IN  IF idx \notin self.visiting
             THEN [dag |-> self, ret |-> Err("NotVisiting")]
             ELSE LET taken == [self EXCEPT !.visiting = @ \ {idx}]
                  IN  IF taken.vertices[idx].state = "Completed"
                      THEN [dag |-> taken, ret |-> Ok(Unit)]
                      ELSE IF errored
                      THEN [dag |-> [taken EXCEPT !.vertices[idx].state = "Errored"],
                            ret |-> Ok(Unit)]
                      ELSE release_children(
                             [taken EXCEPT !.vertices[idx].state = "Completed"],
                             taken.vertices[idx].children, checks)

\* set_vertex_state whose arm for Queued sets the state and leaves the ready
\* set alone.
set_vertex_state_requeue_not_ready(self, key, state, checks) ==
    IF key \notin DOMAIN self.keymap THEN [dag |-> self, ret |-> Err("UnknownKey")]
    ELSE LET idx == self.keymap[key]
             cur_state == self.vertices[idx].state
             removed == [self EXCEPT !.ready = @ \ {idx}, !.visiting = @ \ {idx}]
             finish(r) == IF r.ret.tag = "Ok"
                          THEN [dag |-> [r.dag EXCEPT !.vertices[idx].state = state],
                                ret |-> Ok(Unit)]
                          ELSE r
         IN  IF cur_state = state THEN [dag |-> self, ret |-> Ok(Unit)]
             ELSE IF state = "Completed"
             THEN finish(complete_visit(removed, key, FALSE, checks))
             ELSE IF cur_state \in {"Errored", "Killed"} /\ state = "Queued"
             THEN finish([dag |-> self, ret |-> Ok(Unit)])
             ELSE IF state \in {"Errored", "Killed"}
             THEN finish(complete_visit(removed, key, TRUE, checks))
             ELSE [dag |-> self, ret |-> Err("BadTransition")]

\* set_vertex_state whose arm for Queued takes a vertex in any state.
set_vertex_state_requeue_any(self, key, state, checks) ==
    IF key \notin DOMAIN self.keymap THEN [dag |-> self, ret |-> Err("UnknownKey")]
    ELSE LET idx == self.keymap[key]
             cur_state == self.vertices[idx].state
             removed == [self EXCEPT !.ready = @ \ {idx}, !.visiting = @ \ {idx}]
             finish(r) == IF r.ret.tag = "Ok"
                          THEN [dag |-> [r.dag EXCEPT !.vertices[idx].state = state],
                                ret |-> Ok(Unit)]
                          ELSE r
         IN  IF cur_state = state THEN [dag |-> self, ret |-> Ok(Unit)]
             ELSE IF state = "Completed"
             THEN finish(complete_visit(removed, key, FALSE, checks))
             ELSE IF state = "Queued"
             THEN finish([dag |-> [self EXCEPT !.ready = @ \cup {idx}], ret |-> Ok(Unit)])
             ELSE IF state \in {"Errored", "Killed"}
             THEN finish(complete_visit(removed, key, TRUE, checks))
             ELSE [dag |-> self, ret |-> Err("BadTransition")]

\* DAG::set_vertex_state
set_vertex_state(self, key, state, checks) ==
    IF key \notin DOMAIN self.keymap THEN [dag |-> self, ret |-> Err("UnknownKey")]
    ELSE LET idx == self.keymap[key]
             cur_state == self.vertices[idx].state
             removed == [self EXCEPT !.ready = @ \ {idx}, !.visiting = @ \ {idx}]
             finish(r) == IF r.ret.tag = "Ok"
                          THEN [dag |-> [r.dag EXCEPT !.vertices[idx].state = state],
                                ret |-> Ok(Unit)]
                          ELSE r
         IN  IF cur_state = state THEN [dag |-> self, ret |-> Ok(Unit)]
             ELSE IF state = "Completed"
             THEN finish(complete_visit(removed, key, FALSE, checks))
             ELSE IF cur_state \in {"Errored", "Killed"} /\ state = "Queued"
             THEN finish([dag |-> [self EXCEPT !.ready = @ \cup {idx}], ret |-> Ok(Unit)])
             ELSE IF state \in {"Errored", "Killed"}
             THEN finish(complete_visit(removed, key, TRUE, checks))
             ELSE [dag |-> self, ret |-> Err("BadTransition")]

\* DAG::can_progress
can_progress(self) == ~(self.ready = {} /\ self.visiting = {})

\* DAG::is_complete
is_complete(self) == self.visiting = {} /\ self.ready = {}

\* ---------------------------------------------------------------- actions

\* The state after `DAG::new()`, in either build, before any call, and an
\* executor task spawned on an empty channel.
InitEngine ==
    /\ vertices = new.vertices
    /\ keymap = new.keymap
    /\ ready = new.ready
    /\ visiting = new.visiting
    /\ panicked = FALSE
    /\ overflow_checks \in BOOLEAN
    /\ phase = "build"
    /\ visit_order = <<>>
    /\ additions = {}
    /\ requeued = {}
    /\ exe_msgs = <<>>
    /\ exe_senders = TRUE
    /\ exe_pc = "loop"
    /\ posted = <<>>
    /\ sent = <<>>
    /\ running_tasks = << >>
    /\ watchers = <<>>

\* The executor is the trivial one.
Init == InitEngine /\ backend = "local" /\ receivers = {"response", "runner", "tracker"}

\* A call returned r (or panicked): the object is left as r.dag.
Apply(r) ==
    /\ vertices' = r.dag.vertices
    /\ keymap' = r.dag.keymap
    /\ ready' = r.dag.ready
    /\ visiting' = r.dag.visiting
    /\ panicked' = (r.ret.tag = "Panic")

\* No counter of the object leaves the bounds of the model.
InBounds(dag) ==
    \A i \in DOMAIN dag.vertices :
        /\ dag.vertices[i].parents_outstanding <= MaxOutstanding
        /\ dag.vertices[i].parents_outstanding >= 0 - MaxWrapped

\* A call is made by a program that has not panicked.
Call(r) == ~panicked /\ InBounds(r.dag) /\ Apply(r)

\* The callers of the model introduce new keys in the order of KeyOrder (any
\* other order is this one with the keys renamed); a key already present and
\* a key never added can be passed to every call at any time.
Fresh(present, key) ==
    key \in present \/ key = KeyOrder[Cardinality(present) + 1]

KeySeqs == UNION {[1 .. n -> Keys] : n \in 0 .. MaxBatch}

FreshSeq(keys) ==
    \A n \in 1 .. Len(keys) :
        Fresh(DOMAIN keymap \cup {keys[m] : m \in 1 .. n - 1}, keys[n])

\* The traversal driver does not move.
Idle == UNCHANGED <<overflow_checks, phase, visit_order, additions, requeued, execvars>>

CallAddVertex ==
    /\ \E key \in Keys : Fresh(DOMAIN keymap, key) /\ Call(add_vertex(Self, key))
    /\ Idle

CallAddVertices ==
    /\ \E keys \in KeySeqs : FreshSeq(keys) /\ Call(add_vertices(Self, keys))
    /\ Idle

CallReset == Call(reset(Self)) /\ Idle

CallAddEdge ==
    /\ \E s \in Keys, d \in Keys : Call(add_edge(Self, s, d))
    /\ Idle

CallVisitNext ==
    /\ \E r \in visit_next_results(Self) : Call(r)
    /\ Idle

CallCompleteVisit ==
    /\ \E key \in Keys, errored \in BOOLEAN :
          Call(complete_visit(Self, key, errored, overflow_checks))
    /\ Idle

CallSetVertexState ==
    /\ \E key \in Keys, state \in State :
          Call(set_vertex_state(Self, key, state, overflow_checks))
    /\ Idle

\* Any sequence of public calls on one DAG.  (has_path, can_progress and
\* is_complete change nothing.)
Next ==
    \/ CallAddVertex
    \/ CallAddVertices
    \/ CallReset
    \/ CallAddEdge
    \/ CallVisitNext
    \/ CallCompleteVisit
    \/ CallSetVertexState

Spec == Init /\ [][Next]_vars

\* Any sequence of add_vertex, add_vertices and add_edge calls.
NextBuild ==
    \/ CallAddVertex
    \/ CallAddVertices
    \/ CallAddEdge

SpecBuild == Init /\ [][NextBuild]_vars

\* Any sequence of public calls other than reset().
NextNoReset ==
    \/ CallAddVertex
    \/ CallAddVertices
    \/ CallAddEdge
    \/ CallVisitNext
    \/ CallCompleteVisit
    \/ CallSetVertexState

SpecNoReset == Init /\ [][NextNoReset]_vars

\* ------------------------------------------------- the traversal drivers

\* `.unwrap()` / `.expect(..)` on the value a call returned: an Err panics.
Expect(r) == IF r.ret.tag = "Err" THEN [dag |-> r.dag, ret |-> Panic] ELSE r

\* The set of keys visit_next has returned.
visited == {visit_order[n] : n \in 1 .. Len(visit_order)}

\* The key slices the tests pass to add_vertices: keys that are all new (the
\* tests unwrap the value returned), up to MaxBatch of them.
NewKeySeqs ==
    {[n \in 1 .. m |-> KeyOrder[Cardinality(DOMAIN keymap) + n]] :
        m \in 1 .. IF NumKeys - Cardinality(DOMAIN keymap) < MaxBatch
                   THEN NumKeys - Cardinality(DOMAIN keymap) ELSE MaxBatch}

\* test::dag_traversal_order, the construction: add_vertices and add_edge.
BuildAddVertices ==
    /\ phase = "build"
    /\ \E keys \in NewKeySeqs : Call(Expect(add_vertices(Self, keys)))
    /\ UNCHANGED <<overflow_checks, phase, visit_order, additions, requeued, execvars>>

BuildAddEdge ==
    /\ phase = "build"
    /\ \E s \in Keys, d \in Keys : Call(add_edge(Self, s, d))
    /\ UNCHANGED <<overflow_checks, phase, visit_order, additions, requeued, execvars>>

\* `dag.reset()` before the loop
TraverseReset ==
    /\ phase = "build"
    /\ Call(reset(Self))
    /\ phase' = "loop"
    /\ UNCHANGED <<overflow_checks, visit_order, additions, requeued, execvars>>

\* `while let Some(id) = dag.visit_next()`: an identifier is returned
LoopVisit ==
    /\ phase = "loop"
    /\ \E idx \in ready :
          /\ Call(visit_next(Self, idx))
          /\ visit_order' = Append(visit_order, visit_next(Self, idx).ret.val)
    /\ phase' = "visited"
    /\ UNCHANGED <<overflow_checks, additions, requeued, execvars>>

\* `dag.complete_visit(&id, false).expect(..)` in the body of the loop
LoopComplete ==
    /\ phase = "visited"
    /\ Call(Expect(complete_visit(Self, visit_order[Len(visit_order)], FALSE,
                                  overflow_checks)))
    /\ phase' = "loop"
    /\ UNCHANGED <<overflow_checks, visit_order, additions, requeued, execvars>>

\* visit_next() returns None: the loop ends
LoopDone ==
    /\ phase = "loop"
    /\ ~panicked
    /\ ready = {}
    /\ phase' = "done"
    /\ UNCHANGED <<dagvars, panicked, overflow_checks, visit_order, additions, requeued, execvars>>

NextTraversal ==
    \/ BuildAddVertices
    \/ BuildAddEdge
    \/ TraverseReset
    \/ LoopVisit
    \/ LoopComplete
    \/ LoopDone

\* The test's program runs on: it resets after the construction and the loop
\* takes its next step.
SpecTraversal ==
    /\ Init
    /\ [][NextTraversal]_vars
    /\ WF_vars(TraverseReset)
    /\ WF_vars(LoopVisit)
    /\ WF_vars(LoopComplete)
    /\ WF_vars(LoopDone)

\* The edge src -> dst is in the graph.
HasEdge(s, d) ==
    /\ s \in DOMAIN keymap
    /\ d \in DOMAIN keymap
    /\ keymap[d] \in vertices[keymap[s]].children

\* test::dag_additions_during_traversal: vertices added while the loop runs
MidAddVertices ==
    /\ phase \in {"loop", "visited"}
    /\ \E keys \in NewKeySeqs :
          /\ Call(Expect(add_vertices(Self, keys)))
          /\ additions' = additions \cup {"vertex"}
    /\ UNCHANGED <<overflow_checks, phase, visit_order, requeued, execvars>>

\* test::dag_additions_during_traversal: a new edge, to a vertex the loop has
\* not visited yet, added while the loop runs.  An edge that was inserted is
\* recorded by the state its source had.
MidAddEdge ==
    /\ phase \in {"loop", "visited"}
    /\ \E s \in Keys, d \in Keys :
          /\ d \notin visited
          /\ ~HasEdge(s, d)
          /\ Call(add_edge(Self, s, d))
          /\ additions' = additions \cup
                IF add_edge(Self, s, d).ret.tag # "Ok" THEN {}
                ELSE IF vertices[keymap[s]].state = "Completed"
                THEN {"edge from Completed"}
                ELSE {"edge from " \o vertices[keymap[s]].state}
    /\ UNCHANGED <<overflow_checks, phase, visit_order, requeued, execvars>>

NextAdditions ==
    \/ BuildAddVertices
    \/ BuildAddEdge
    \/ TraverseReset
    \/ MidAddVertices
    \/ MidAddEdge
    \/ LoopVisit
    \/ LoopComplete
    \/ LoopDone

SpecAdditions == Init /\ [][NextAdditions]_vars

\* --------------------------------------------- a runner that requeues

\* A runner visits any number of vertices at a time: visit_next() returns an
\* identifier while others are still being visited.
RunVisit ==
    /\ phase = "loop"
    /\ \E idx \in ready : Call(visit_next(Self, idx))
    /\ UNCHANGED <<overflow_checks, phase, visit_order, additions, requeued, execvars>>

\* The visit of a vertex ends, in success or in error.
RunComplete ==
    /\ phase = "loop"
    /\ \E key \in DOMAIN keymap, errored \in BOOLEAN :
          /\ keymap[key] \in visiting
          /\ Call(Expect(complete_visit(Self, key, errored, overflow_checks)))
    /\ UNCHANGED <<overflow_checks, phase, visit_order, additions, requeued, execvars>>

\* An errored vertex is queued again: set_vertex_state(key, Queued).
RunRequeue ==
    /\ phase = "loop"
    /\ \E key \in DOMAIN keymap :
          /\ vertices[keymap[key]].state = "Errored"
          /\ Call(Expect(set_vertex_state(Self, key, "Queued", overflow_checks)))
          /\ requeued' = requeued \cup {key}
    /\ UNCHANGED <<overflow_checks, phase, visit_order, additions, execvars>>

NextRequeue ==
    \/ BuildAddVertices
    \/ BuildAddEdge
    \/ TraverseReset
    \/ RunVisit
    \/ RunComplete
    \/ RunRequeue

\* A DAG is built and reset, then traversed by a runner whose visits may end
\* in error and who queues errored vertices again; it makes no other call.
SpecRequeue == Init /\ [][NextRequeue]_vars

\* --------------------------------------------------- the trivial executor

\* enum ExecutorMessage, as start_local_executor matches it.  `id` is the
\* position of the message among those sent to the executor; run_id and
\* task_id are those of ExecuteTask (no other arm reads a field but the reply
\* channel, so the other messages carry one value of each).
ExecutorMessage(type, run_id, task_id, id) ==
    [type |-> type, run_id |-> run_id, task_id |-> task_id, id |-> id]

\* A message the executor sends: on the `tracker` channel of the request, on
\* its `response` channel to the runner, or on its one-shot `response` channel.
\* `req` is the id of the request that is being handled.  The value returned
\* by `send` is discarded (`unwrap_or(())`).
Send(chan, type, msg, state, succeeded) ==
    [chan |-> chan, type |-> type, run_id |-> msg.run_id, task_id |-> msg.task_id,
     state |-> state, succeeded |-> succeeded, req |-> msg.id]

\* The arm for ExecuteTask with its two sends in the other order.
local_execute_task_report_first(msg) ==
    <<Send("runner", "ExecutionReport", msg, "", TRUE),
      Send("tracker", "UpdateTaskState", msg, "Running", FALSE)>>

\* The arm of start_local_executor for ExecuteTask: UpdateTaskState(Running)
\* to the tracker, then an ExecutionReport whose attempt has succeeded = true.
local_execute_task(msg) ==
    <<Send("tracker", "UpdateTaskState", msg, "Running", FALSE),
      Send("runner", "ExecutionReport", msg, "", TRUE)>>

\* The arms for ValidateTask and ExpandTaskDetails: one reply.
local_validate_task(msg) == <<Send("response", "Ok(())", msg, "", FALSE)>>

local_expand_task_details(msg) == <<Send("response", "Ok(vec![(details, [])])", msg, "", FALSE)>>

\* A holder of the sender half sends a message to the executor.  (A send
\* after the executor has returned fails: the receiver is dropped.)
PostMessage ==
    /\ backend = "local"
    /\ exe_senders
    /\ exe_pc = "loop"
    /\ Len(posted) < MaxMessages
    /\ \E type \in {"ValidateTask", "ExpandTaskDetails", "ExecuteTask", "StopTask", "Stop"},
          run_id \in RunIds, task_id \in TaskIds :
          /\ type \in {"ValidateTask", "ExpandTaskDetails", "StopTask", "Stop"} =>
                run_id = 0 /\ task_id = 1
          /\ LET msg == ExecutorMessage(type, run_id, task_id, Len(posted) + 1)
             IN  /\ exe_msgs' = Append(exe_msgs, msg)
                 /\ posted' = Append(posted, msg)
    /\ UNCHANGED <<backend, exe_senders, exe_pc, sent, clustervars, enginevars>>

\* Every sender half is dropped.
DropSenders ==
    /\ exe_senders
    /\ exe_senders' = FALSE
    /\ UNCHANGED <<backend, exe_msgs, exe_pc, posted, sent, clustervars, enginevars>>

\* `exe_msgs.recv().await` yields a message of the given type, and the arm of
\* the match for it sends `sends`.
LocalReceive(type, sends) ==
    /\ backend = "local"
    /\ exe_pc = "loop"
    /\ exe_msgs # <<>>
    /\ Head(exe_msgs).type = type
    /\ exe_msgs' = Tail(exe_msgs)
    /\ sent' = sent \o sends
    /\ UNCHANGED <<backend, exe_senders, posted, clustervars, enginevars>>

LocalValidateTask ==
    /\ LocalReceive("ValidateTask", local_validate_task(Head(exe_msgs)))
    /\ UNCHANGED exe_pc

LocalExpandTaskDetails ==
    /\ LocalReceive("ExpandTaskDetails", local_expand_task_details(Head(exe_msgs)))
    /\ UNCHANGED exe_pc

LocalExecuteTask ==
    /\ LocalReceive("ExecuteTask", local_execute_task(Head(exe_msgs)))
    /\ UNCHANGED exe_pc

\* `StopTask { .. } => {}`
LocalStopTask ==
    /\ LocalReceive("StopTask", <<>>)
    /\ UNCHANGED exe_pc

\* `Stop {} => break`: the function returns, the messages still in the channel
\* are never received.
LocalStop ==
    /\ LocalReceive("Stop", <<>>)
    /\ exe_pc' = "returned"

\* `recv()` yields None, the channel being empty with every sender dropped:
\* the loop ends.
LocalClosed ==
    /\ backend = "local"
    /\ exe_pc = "loop"
    /\ exe_msgs = <<>>
    /\ ~exe_senders
    /\ exe_pc' = "returned"
    /\ UNCHANGED <<backend, exe_msgs, exe_senders, posted, sent, clustervars, enginevars>>

NextLocal ==
    \/ PostMessage
    \/ DropSenders
    \/ LocalValidateTask
    \/ LocalExpandTaskDetails
    \/ LocalExecuteTask
    \/ LocalStopTask
    \/ LocalStop
    \/ LocalClosed

\* The executor does no arithmetic: one build is enough.
InitLocal == Init /\ overflow_checks = TRUE

\* The executor task is scheduled: a message in the channel is received.
SpecLocal ==
    /\ InitLocal
    /\ [][NextLocal]_vars
    /\ WF_vars(LocalValidateTask)
    /\ WF_vars(LocalExpandTaskDetails)
    /\ WF_vars(LocalExecuteTask)
    /\ WF_vars(LocalStopTask)
    /\ WF_vars(LocalStop)
    /\ WF_vars(LocalClosed)

\* ---------------------------------------------------- the cluster executor

\* The (run_id, task_id) pairs the messages to the cluster executor name.
TaskKeys == {<<0, 1>>, <<1, 2>>}

\* The values of `job_state` a poll can return; "UNKNOWN" stands for every
\* string the match of watch_job does not name.
JobStates ==
    {"COMPLETED", "FAILED", "CANCELLED", "TIMEOUT", "OOM",
     "NODE_FAIL", "PREEMPTED", "BOOT_FAIL", "DEADLINE",
     "PENDING", "SUSPENDED", "RUNNING", "UNKNOWN"}

\* The job states the polls of the watchers return: a success, a logical
\* failure, a cluster fault and a state to wait on.
PolledStates == {"COMPLETED", "CANCELLED", "NODE_FAIL", "RUNNING"}

\* What a GET of the job can come to: no response (`send().await` is an Err),
\* a status other than 200, a 200 whose body is not the document expected, or
\* a 200 with a job_state.
PollOutcomes ==
    {[kind |-> k, state |-> ""] : k \in {"no response", "not 200", "malformed"}}
        \cup {[kind |-> "job", state |-> st] : st \in PolledStates}

\* What the DELETE of the job can come to.
DeleteOutcomes == {"no response", "not 200", "200"}

\* TaskAttempt::default(), the fields the executor sets.  `executor` is the
\* vector of its diagnostic lines.
TaskAttempt_default == [succeeded |-> FALSE, killed |-> FALSE, executor |-> <<>>]

\* A message the cluster executor or a watcher sends.  `req` is the id of
\* the request it answers; `delivered` is what `send` returned: Ok, or Err
\* when the receiver has been dropped.
ClusterSend(chan, type, req, state, attempt, delivered) ==
    [chan |-> chan, type |-> type, run_id |-> req.run_id, task_id |-> req.task_id,
     req |-> req.id, state |-> state, succeeded |-> attempt.succeeded,
     killed |-> attempt.killed, executor |-> attempt.executor, delivered |-> delivered]

\* The state of a watch_job task as it is spawned for the request `msg`.
\* `kill` is the state of its kill_signal channel: "open", "sent" (Kill is in
\* it), "taken" (Kill was received) or "dropped" (the sender was dropped
\* without a send: the receiver yields an Err, which the loop ignores).
Watcher_new(msg) ==
    [run_id |-> msg.run_id, task_id |-> msg.task_id, id |-> msg.id, pc |-> "watch",
     kill |-> "open", killed |-> FALSE, deletes |-> 0]

\* watch_job's match on job_state with the cluster faults among the states to
\* wait on.
job_attempt_faults_wait(state, killed) ==
    IF state \in {"COMPLETED", "FAILED", "CANCELLED", "TIMEOUT", "OOM"}
    THEN <<[TaskAttempt_default EXCEPT !.succeeded = state = "COMPLETED", !.killed = killed]>>
    ELSE <<>>

\* watch_job's match on job_state: the attempt to report, or none.
job_attempt(state, killed) ==
    IF state \in {"COMPLETED", "FAILED", "CANCELLED", "TIMEOUT", "OOM"}
    THEN <<[TaskAttempt_default EXCEPT !.succeeded = state = "COMPLETED", !.killed = killed]>>
    ELSE IF state \in {"NODE_FAIL", "PREEMPTED", "BOOT_FAIL", "DEADLINE"}
    THEN <<[TaskAttempt_default EXCEPT
              !.executor = <<"Job failed due to potential cluster issue: " \o state>>]>>
    ELSE <<>>

\* watch_job, the arm for JobEvent::Timeout: the job is polled.  The watcher
\* after it and the messages it sent; `open` tells whether the receiver of
\* `response` still exists (`send(..).unwrap()` panics when it does not).
watch_poll(w, outcome, open) ==
    LET attempts ==
            IF outcome.kind = "not 200"
            THEN <<[TaskAttempt_default EXCEPT !.executor = <<"Unable to query job status">>]>>
            ELSE job_attempt(outcome.state, w.killed)
    IN  IF outcome.kind \in {"no response", "malformed"}
        THEN [watcher |-> [w EXCEPT !.pc = "panicked"], sends |-> <<>>]
        ELSE IF attempts = <<>>
        THEN [watcher |-> w, sends |-> <<>>]
        ELSE [watcher |-> [w EXCEPT !.pc = IF open THEN "returned" ELSE "panicked"],
              sends |-> <<ClusterSend("runner", "ExecutionReport", w, "", attempts[1], open)>>]

\* watch_job, the arm for JobEvent::Kill: the DELETE is issued.
watch_kill(w, outcome) ==
    [w EXCEPT !.kill = "taken",
              !.deletes = @ + 1,
              !.killed = IF outcome = "200" THEN TRUE ELSE @,
              !.pc = IF outcome = "no response" THEN "panicked" ELSE @]

\* The kill senders are dropped and watch_job leaves its loop when its
\* kill_signal yields an Err.
drop_senders_ends_watcher(ws, dropped) ==
    [n \in DOMAIN ws |->
        IF n \in dropped /\ ws[n].kill = "open"
        THEN [ws[n] EXCEPT !.kill = "dropped", !.pc = "returned"]
        ELSE ws[n]]

\* The kill senders in the map are dropped: the receiver of a channel nothing
\* was sent on yields an Err.
drop_senders(ws, dropped) ==
    [n \in DOMAIN ws |->
        IF n \in dropped /\ ws[n].kill = "open" THEN [ws[n] EXCEPT !.kill = "dropped"]
        ELSE ws[n]]

\* The watchers whose kill sender the map holds.
Held(rt) == {rt[k] : k \in DOMAIN rt}

\* HashMap::remove
remove(m, k) == [x \in DOMAIN m \ {k} |-> m[x]]

\* The arm for StopTask sending Kill to the watcher without taking its entry
\* out of the map.
stop_task_keeps_entry(rt, ws, key) ==
    IF key \in DOMAIN rt
    THEN [running_tasks |-> rt,
          watchers |-> [ws EXCEPT ![rt[key]].kill =
                            IF ws[rt[key]].pc = "watch" THEN "sent" ELSE @]]
    ELSE [running_tasks |-> rt, watchers |-> ws]

\* start_executor, the arm for StopTask up to the acknowledgement: the entry
\* of the key is removed and Kill sent on its channel (a send that fails when
\* the watcher has ended and dropped the receiver).
stop_task(rt, ws, key) ==
    IF key \in DOMAIN rt
    THEN [running_tasks |-> remove(rt, key),
          watchers |-> [ws EXCEPT ![rt[key]].kill =
                            IF @ = "open" /\ ws[rt[key]].pc = "watch" THEN "sent" ELSE @]]
    ELSE [running_tasks |-> rt, watchers |-> ws]

\* A holder of the sender half sends a message to the cluster executor.
ClusterPostMessage ==
    /\ backend = "cluster"
    /\ exe_senders
    /\ exe_pc \in {"loop", "spawned"}
    /\ Len(posted) < MaxMessages
    /\ \E type \in {"ValidateTask", "ExpandTaskDetails", "ExecuteTask", "StopTask", "Stop"},
          key \in TaskKeys :
          /\ type \in {"ValidateTask", "ExpandTaskDetails", "Stop"} => key = <<0, 1>>
          /\ LET msg == ExecutorMessage(type, key[1], key[2], Len(posted) + 1)
             IN  /\ exe_msgs' = Append(exe_msgs, msg)
                 /\ posted' = Append(posted, msg)
    /\ UNCHANGED <<backend, exe_senders, exe_pc, sent, clustervars, enginevars>>

\* `msgs.recv().await` yields a message of the given type.
ClusterReceive(type) ==
    /\ backend = "cluster"
    /\ exe_pc = "loop"
    /\ exe_msgs # <<>>
    /\ Head(exe_msgs).type = type
    /\ exe_msgs' = Tail(exe_msgs)
    /\ UNCHANGED <<backend, exe_senders, posted, enginevars>>

\* The arm for ValidateTask: the details parse or do not, the reply says so.
ClusterValidateTask ==
    /\ ClusterReceive("ValidateTask")
    /\ \E reply \in {"Ok(())", "Err"} :
          sent' = Append(sent, ClusterSend("response", reply, Head(exe_msgs), "",
                                           TaskAttempt_default, "response" \in receivers))
    /\ UNCHANGED <<exe_pc, clustervars>>

\* The arm for ExpandTaskDetails: the reply is what expand_task_details returns.
ClusterExpandTaskDetails ==
    /\ ClusterReceive("ExpandTaskDetails")
    /\ sent' = Append(sent, ClusterSend("response", "expand_task_details", Head(exe_msgs),
                                       "", TaskAttempt_default, "response" \in receivers))
    /\ UNCHANGED <<exe_pc, clustervars>>

\* The arm for ExecuteTask, submit_slurm_job returning Ok: watch_job is
\* spawned.  On a runtime with several worker threads the watcher runs from
\* here on, in parallel with the rest of the arm.
ClusterExecuteSpawn ==
    /\ ClusterReceive("ExecuteTask")
    /\ watchers' = Append(watchers, Watcher_new(Head(exe_msgs)))
    /\ exe_pc' = "spawned"
    /\ UNCHANGED <<sent, running_tasks, receivers>>

\* The rest of the arm: UpdateTaskState(Running) is sent to the tracker and
\* the kill sender inserted in the map, where it replaces (and drops) the
\* sender the map held for the key.
ClusterExecuteNotify ==
    /\ backend = "cluster"
    /\ exe_pc = "spawned"
    /\ LET w == watchers[Len(watchers)]
           key == <<w.run_id, w.task_id>>
       IN  /\ sent' = Append(sent, ClusterSend("tracker", "UpdateTaskState", w, "Running",
                                                TaskAttempt_default, "tracker" \in receivers))
           /\ running_tasks' = insert(running_tasks, key, Len(watchers))
           /\ watchers' = drop_senders(watchers,
                             IF key \in DOMAIN running_tasks THEN {running_tasks[key]} ELSE {})
    /\ exe_pc' = "loop"
    /\ UNCHANGED <<backend, exe_msgs, exe_senders, posted, receivers, enginevars>>

\* The arm for ExecuteTask, submit_slurm_job returning Err: the report is sent
\* at once, with the error in its executor field.
ClusterExecuteFailed ==
    /\ ClusterReceive("ExecuteTask")
    /\ sent' = Append(sent, ClusterSend("runner", "ExecutionReport", Head(exe_msgs), "",
                                       [TaskAttempt_default EXCEPT !.executor = <<"submit error">>],
                                       "runner" \in receivers))
    /\ UNCHANGED <<exe_pc, clustervars>>

\* The arm for ExecuteTask, submit_slurm_job panicking on an `unwrap()`: the
\* executor task ends, the map is dropped.
ClusterExecutePanic ==
    /\ ClusterReceive("ExecuteTask")
    /\ exe_pc' = "panicked"
    /\ running_tasks' = << >>
    /\ watchers' = drop_senders(watchers, Held(running_tasks))
    /\ UNCHANGED <<sent, receivers>>

\* The arm for StopTask: Kill to the watcher of the key if the map has one,
\* then the acknowledgement.
ClusterStopTask ==
    /\ ClusterReceive("StopTask")
    /\ LET msg == Head(exe_msgs)
           r == stop_task(running_tasks, watchers, <<msg.run_id, msg.task_id>>)
       IN  /\ running_tasks' = r.running_tasks
           /\ watchers' = r.watchers
           /\ sent' = Append(sent, ClusterSend("response", "()", msg, "",
                                            TaskAttempt_default, "response" \in receivers))
    /\ UNCHANGED <<exe_pc, receivers>>

\* The arm for Stop without its `break`.
ClusterStopIgnored ==
    /\ ClusterReceive("Stop")
    /\ UNCHANGED <<exe_pc, sent, clustervars>>

\* `Stop {} => break`: start_executor returns, the map is dropped.
ClusterStop ==
    /\ ClusterReceive("Stop")
    /\ exe_pc' = "returned"
    /\ running_tasks' = << >>
    /\ watchers' = drop_senders(watchers, Held(running_tasks))
    /\ UNCHANGED <<sent, receivers>>

\* `recv()` yields None: the loop ends, the map is dropped.
ClusterClosed ==
    /\ backend = "cluster"
    /\ exe_pc = "loop"
    /\ exe_msgs = <<>>
    /\ ~exe_senders
    /\ exe_pc' = "returned"
    /\ running_tasks' = << >>
    /\ watchers' = drop_senders(watchers, Held(running_tasks))
    /\ UNCHANGED <<backend, exe_msgs, exe_senders, posted, sent, receivers, enginevars>>

\* A watcher in its loop: `signals.next().await` yields JobEvent::Kill.
WatchKill ==
    /\ \E n \in DOMAIN watchers, outcome \in DeleteOutcomes :
          /\ watchers[n].pc = "watch"
          /\ watchers[n].kill = "sent"
          /\ watchers' = [watchers EXCEPT ![n] = watch_kill(@, outcome)]
    /\ UNCHANGED <<backend, exe_msgs, exe_senders, exe_pc, posted, sent, running_tasks,
                   receivers, enginevars>>

\* A watcher in its loop: `signals.next().await` yields JobEvent::Timeout.
WatchPoll ==
    /\ \E n \in DOMAIN watchers, outcome \in PollOutcomes :
          LET r == watch_poll(watchers[n], outcome, "runner" \in receivers)
          IN  /\ watchers[n].pc = "watch"
              /\ watchers' = [watchers EXCEPT ![n] = r.watcher]
              /\ sent' = sent \o r.sends
    /\ UNCHANGED <<backend, exe_msgs, exe_senders, exe_pc, posted, running_tasks, receivers,
                   enginevars>>

NextExecutor ==
    \/ PostMessage
    \/ DropSenders
    \/ LocalValidateTask
    \/ LocalExpandTaskDetails
    \/ LocalExecuteTask
    \/ LocalStopTask
    \/ LocalStop
    \/ LocalClosed
    \/ ClusterPostMessage
    \/ ClusterValidateTask
    \/ ClusterExpandTaskDetails
    \/ ClusterExecuteSpawn
    \/ ClusterExecuteNotify
    \/ ClusterExecuteFailed
    \/ ClusterExecutePanic
    \/ ClusterStopTask
    \/ ClusterStop
    \/ ClusterClosed
    \/ WatchKill
    \/ WatchPoll

\* Either executor is started on the channel.  The tasks at the other end of
\* the executor's channels are there for the whole run, or have all dropped
\* their receivers.
InitExecutor ==
    /\ InitEngine
    /\ overflow_checks = TRUE
    /\ backend \in {"local", "cluster"}
    /\ receivers \in {{}, {"response", "runner", "tracker"}}

\* An executor of either backend and the watchers it spawns.  The executor
\* task is scheduled, and the requests it awaits return: a message in the
\* channel is received and its arm runs to its end.
SpecExecutor ==
    /\ InitExecutor
    /\ [][NextExecutor]_vars
    /\ WF_vars(LocalValidateTask)
    /\ WF_vars(LocalExpandTaskDetails)
    /\ WF_vars(LocalExecuteTask)
    /\ WF_vars(LocalStopTask)
    /\ WF_vars(LocalStop)
    /\ WF_vars(LocalClosed)
    /\ WF_vars(ClusterValidateTask)
    /\ WF_vars(ClusterExpandTaskDetails)
    /\ WF_vars(ClusterExecuteSpawn \/ ClusterExecuteFailed \/ ClusterExecutePanic)
    /\ WF_vars(ClusterExecuteNotify)
    /\ WF_vars(ClusterStopTask)
    /\ WF_vars(ClusterStop)
    /\ WF_vars(ClusterClosed)

\* ------------------------------------------------------------ properties

\* The indices of the vertices.
Idx == DOMAIN vertices

\* The indices reached from the set S of indices along one or more edges.
RECURSIVE ReachedFrom(_, _)
ReachedFrom(S, acc) ==
    LET step == UNION {vertices[i].children : i \in S} \ acc
    IN  IF step = {} THEN acc ELSE ReachedFrom(step, acc \cup step)

Descendants(i) == ReachedFrom({i}, {})

Known == DOMAIN keymap

\* C1: the edge set is acyclic in every reachable state, and add_edge(src, dst)
\* returns an error and leaves the DAG as it was whenever dst = src or src is
\* reached from dst along the edges.
AcyclicAndCycleRejected ==
    /\ \A i \in Idx : i \notin Descendants(i)
    /\ \A s \in Known, d \in Known :
          (s = d \/ keymap[s] \in Descendants(keymap[d]))
              => /\ add_edge(Self, s, d).ret.tag = "Err"
                 /\ add_edge(Self, s, d).dag = Self

\* C1 witness: a path of two edges i -> j -> k, which add_edge built and whose
\* closing edge k -> i add_edge rejects.
WitnessCycleRejected ==
    \E s \in Known, m \in Known, d \in Known :
        /\ HasEdge(s, m) /\ HasEdge(m, d)
        /\ add_edge(Self, d, s).ret = Err("Cycle")

\* C2: a vertex is in the ready set if and only if its state is Queued and its
\* parents_outstanding is 0.
ReadySetSoundness ==
    \A i \in Idx :
        i \in ready <=> (vertices[i].state = "Queued" /\ vertices[i].parents_outstanding = 0)

\* C3: the ready set and the visiting set are disjoint.
ReadyVisitingDisjoint == ready \cap visiting = {}

\* C4: a vertex is in the visiting set if and only if its state is Running.
VisitingIffRunning ==
    \A i \in Idx : i \in visiting <=> vertices[i].state = "Running"

\* C5: parents_outstanding never underflows: no call panics on `-= 1` and no
\* counter has wrapped below 0.
NeverUnderflows ==
    /\ ~panicked
    /\ \A i \in Idx : vertices[i].parents_outstanding >= 0

\* The number of parents of vertex i whose state is not Completed.
ParentsNotCompleted(i) ==
    Cardinality({p \in vertices[i].parents : vertices[p].state # "Completed"})

\* C6: without reset(), each vertex's parents_outstanding equals the number of
\* its parents whose state is not Completed.
OutstandingCountsParents ==
    \A i \in Idx : vertices[i].parents_outstanding = ParentsNotCompleted(i)

\* The place of key k in the order of the visits.
VisitIndex(k) == CHOOSE n \in 1 .. Len(visit_order) : visit_order[n] = k

\* Every vertex has been returned by visit_next exactly once.
EachVisitedOnce ==
    /\ visited = Known
    /\ Len(visit_order) = Cardinality(Known)

\* Every edge's source was returned by visit_next before its destination.
SourcesVisitedFirst ==
    \A s \in Known, d \in Known :
        HasEdge(s, d) => /\ s \in visited
                         /\ d \in visited
                         /\ VisitIndex(s) < VisitIndex(d)

\* What holds when the loop of the traversal has ended.
TraversalComplete ==
    /\ ~panicked
    /\ EachVisitedOnce
    /\ SourcesVisitedFirst
    /\ is_complete(Self)
    /\ \A i \in Idx : vertices[i].state = "Completed"

\* C7: after add_vertices, add_edge and reset(), the loop of visit_next() and
\* complete_visit(id, false) ends, with visit_next() returning none, and then
\* every vertex has been returned exactly once, every edge's source before
\* its destination, is_complete() is true and every vertex is Completed.
TraversalTerminatesInOrder ==
    /\ [](phase = "done" => TraversalComplete)
    /\ <>(phase = "done")

\* C7 witness: the loop has ended on a graph of three vertices in which one
\* vertex has two parents or two edges form a chain.
WitnessTraversalDone ==
    /\ phase = "done"
    /\ Cardinality(Idx) = 3
    /\ \E i \in Idx : Cardinality(vertices[i].parents) = 2
    /\ \E i \in Idx : vertices[i].parents # {} /\ vertices[i].children # {}

\* C8: with vertices and new edges (to a destination not visited yet) added
\* while the loop runs, no vertex is visited twice, a vertex is visited only
\* when all its parents are Completed (and were visited before it), an edge
\* from a Completed source leaves the counter of its destination as it was
\* (the counter is the number of parents not Completed), and when the loop
\* ends every vertex, original or added, has been visited and is Completed.
AdditionsKeepTraversalOrder ==
    /\ ~panicked
    /\ Len(visit_order) = Cardinality(visited)
    /\ visited \subseteq Known
    /\ \A k \in Known :
          (k \in visited <=> vertices[keymap[k]].state \in {"Running", "Completed"})
    /\ \A s \in Known, d \in Known :
          (HasEdge(s, d) /\ d \in visited)
              => /\ vertices[keymap[s]].state = "Completed"
                 /\ s \in visited
                 /\ VisitIndex(s) < VisitIndex(d)
    /\ phase # "build" =>
          \A i \in Idx : vertices[i].parents_outstanding = ParentsNotCompleted(i)
    /\ phase = "done" => TraversalComplete

\* C8 witness: the loop has ended after a vertex was added while it ran, and
\* an edge from a Completed, one from a Running and one from a Queued source.
WitnessAdditionsDone ==
    /\ phase = "done"
    /\ additions = {"vertex", "edge from Completed", "edge from Running",
                    "edge from Queued"}

\* C9: complete_visit(key, false) on a visiting vertex returns Ok, sets it
\* Completed, removes it from visiting, takes exactly one from the counter of
\* each child (which a usize at 0 does not allow) and adds to ready exactly the
\* children that reach 0; complete_visit(key, true) returns Ok, sets it
\* Errored, removes it from visiting, and changes no counter and not ready.
CompleteVisitEffect ==
    \A key \in Known :
        keymap[key] \in visiting =>
            LET idx == keymap[key]
                ch == vertices[idx].children
                ok == complete_visit(Self, key, FALSE, overflow_checks)
                er == complete_visit(Self, key, TRUE, overflow_checks)
            IN  /\ ok.ret = Ok(Unit)
                /\ ok.dag.vertices[idx].state = "Completed"
                /\ ok.dag.visiting = visiting \ {idx}
                /\ \A c \in ch :
                      /\ vertices[c].parents_outstanding # 0
                      /\ ok.dag.vertices[c].parents_outstanding
                            = vertices[c].parents_outstanding - 1
                /\ \A i \in Idx \ ch :
                      ok.dag.vertices[i].parents_outstanding
                            = vertices[i].parents_outstanding
                /\ ok.dag.ready
                      = ready \cup {c \in ch : ok.dag.vertices[c].parents_outstanding = 0}
                /\ er.ret = Ok(Unit)
                /\ er.dag.vertices[idx].state = "Errored"
                /\ er.dag.visiting = visiting \ {idx}
                /\ er.dag.ready = ready
                /\ \A i \in Idx :
                      er.dag.vertices[i].parents_outstanding
                            = vertices[i].parents_outstanding

\* C10: for a vertex that is not Completed, set_vertex_state(key, Completed)
\* returns Ok, leaves the vertex Completed and in neither the ready nor the
\* visiting set, takes one from the counter of each child and adds to ready
\* the children that reach 0.
SetCompletedEffect ==
    \A key \in Known :
        vertices[keymap[key]].state # "Completed" =>
            LET idx == keymap[key]
                ch == vertices[idx].children
                r == set_vertex_state(Self, key, "Completed", overflow_checks)
            IN  /\ r.ret = Ok(Unit)
                /\ r.dag.vertices[idx].state = "Completed"
                /\ idx \notin r.dag.ready
                /\ idx \notin r.dag.visiting
                /\ \A c \in ch :
                      r.dag.vertices[c].parents_outstanding
                            = vertices[c].parents_outstanding - 1
                /\ r.dag.ready
                      = (ready \ {idx})
                          \cup {c \in ch : r.dag.vertices[c].parents_outstanding = 0}

\* C11: set_vertex_state(key, Errored) and set_vertex_state(key, Killed), on a
\* vertex in any other state, return Ok, leave the vertex in the state asked
\* for (Killed is stored as Killed) and in neither the ready nor the visiting
\* set, and change the counter of no vertex.
SetErroredKilledEffect ==
    \A key \in Known, state \in {"Errored", "Killed"} :
        LET idx == keymap[key]
            r == set_vertex_state(Self, key, state, overflow_checks)
        IN  vertices[idx].state # state =>
                /\ r.ret = Ok(Unit)
                /\ r.dag.vertices[idx].state = state
                /\ idx \notin r.dag.ready \cup r.dag.visiting
                /\ \A i \in Idx : r.dag.vertices[i].parents_outstanding =
                                    vertices[i].parents_outstanding

\* set_vertex_state(key, Queued) on the object `self` returns Ok and changes
\* the state of the vertex to Queued and the ready set to hold it: nothing
\* else, so no counter is recomputed.
RequeueEffect(self, key) ==
    LET idx == self.keymap[key]
        r == set_vertex_state(self, key, "Queued", overflow_checks)
    IN  /\ r.ret = Ok(Unit)
        /\ r.dag.vertices[idx].state = "Queued"
        /\ idx \in r.dag.ready
        /\ r.dag = [self EXCEPT !.vertices[idx].state = "Queued", !.ready = @ \cup {idx}]

\* C12: set_vertex_state(key, Queued) on an Errored or a Killed vertex returns
\* Ok, sets the vertex Queued and puts it in the ready set without recomputing
\* any counter; when the vertex is then visited again and its visit completes
\* in success, each child has one outstanding parent less and is in the ready
\* set if it waits for no other parent.
RequeueReleasesChildren ==
    /\ \A key \in Known :
          vertices[keymap[key]].state = "Errored" =>
              /\ RequeueEffect(Self, key)
              /\ RequeueEffect([Self EXCEPT !.vertices[keymap[key]].state = "Killed"], key)
    /\ \A key \in Known :
          key \in requeued /\ vertices[keymap[key]].state = "Completed" =>
              \A c \in vertices[keymap[key]].children :
                  /\ vertices[c].parents_outstanding = ParentsNotCompleted(c)
                  /\ vertices[c].parents_outstanding = 0 /\ vertices[c].state = "Queued"
                        => c \in ready

\* The chain 0 -> 1 -> 2: vertex 1 errored, was queued again, visited again
\* and completed, and its only child 2 is in the ready set.
WitnessRequeueReleased ==
    \E key \in Known :
        /\ key \in requeued
        /\ vertices[keymap[key]].state = "Completed"
        /\ vertices[keymap[key]].parents # {}
        /\ \E c \in vertices[keymap[key]].children :
              /\ vertices[c].parents = {keymap[key]}
              /\ vertices[c].state = "Queued"
              /\ c \in ready

\* C13: set_vertex_state with the state the vertex is in returns Ok and changes
\* nothing; a transition outside the table (Running or Completed to Queued, any
\* other state to Running) returns the bad-transition error and changes
\* nothing: no state, no counter, neither set.
BadTransitionsRejected ==
    \A key \in Known, state \in State :
        LET cur == vertices[keymap[key]].state
            r == set_vertex_state(Self, key, state, overflow_checks)
        IN  /\ cur = state => r = [dag |-> Self, ret |-> Ok(Unit)]
            /\ cur # state /\ (\/ state = "Running"
                               \/ state = "Queued" /\ cur \in {"Running", "Completed"})
                  => r = [dag |-> Self, ret |-> Err("BadTransition")]

\* A Running vertex and a Completed one, neither of which can be queued, and a
\* Queued one that cannot be set Running.
WitnessBadTransition ==
    \E k1 \in Known, k2 \in Known, k3 \in Known :
        /\ vertices[keymap[k1]].state = "Running"
        /\ vertices[keymap[k2]].state = "Completed"
        /\ vertices[keymap[k3]].state = "Queued"
        /\ set_vertex_state(Self, k1, "Queued", overflow_checks).ret = Err("BadTransition")
        /\ set_vertex_state(Self, k2, "Queued", overflow_checks).ret = Err("BadTransition")
        /\ set_vertex_state(Self, k3, "Running", overflow_checks).ret = Err("BadTransition")
        /\ set_vertex_state(Self, k3, "Queued", overflow_checks).ret = Ok(Unit)

AddEdgeEffect ==
    \A s \in Known, d \in Known :
        LET r == add_edge(Self, s, d)
            dst == keymap[d]
            po == vertices[dst].parents_outstanding
            po_after == r.dag.vertices[dst].parents_outstanding
        IN  r.ret = Ok(Unit) =>
                IF vertices[keymap[s]].state # "Completed"
                THEN po_after = po + 1 /\ dst \notin r.dag.ready
                ELSE po_after = po /\ (dst \in r.dag.ready <=> po_after = 0)

\* C16: complete_visit on a vertex whose state is Completed, as a second
\* complete_visit after one that succeeded, returns Ok and leaves the DAG as
\* it was.
CompletedVisitIsNoop ==
    \A key \in Known, errored \in BOOLEAN :
        vertices[keymap[key]].state = "Completed" =>
            complete_visit(Self, key, errored, overflow_checks) =
                [dag |-> Self, ret |-> Ok(Unit)]

\* C16, as the code has it: complete_visit on a vertex whose state is Completed
\* returns the not-visiting error and leaves the DAG as it was.
CompletedVisitIsRejected ==
    \A key \in Known, errored \in BOOLEAN :
        vertices[keymap[key]].state = "Completed" =>
            complete_visit(Self, key, errored, overflow_checks) =
                [dag |-> Self, ret |-> Err("NotVisiting")]

\* A vertex has been visited and its visit completed: a second complete_visit
\* on it is rejected.
WitnessCompletedVisit ==
    \E key \in Known :
        /\ vertices[keymap[key]].state = "Completed"
        /\ complete_visit(Self, key, FALSE, overflow_checks).ret = Err("NotVisiting")

\* C17: visit_next() returns None exactly when the ready set is empty, whether
\* or not vertices are being visited, and then changes nothing; otherwise it
\* returns the identifier of a vertex that was in the ready set, sets it
\* Running, moves it from the ready set to the visiting set, and changes no
\* other vertex and no counter.
VisitNextEffect ==
    \A r \in visit_next_results(Self) :
        IF ready = {}
        THEN r = [dag |-> Self, ret |-> None]
        ELSE /\ r.ret.tag = "Some"
             /\ r.ret.val \in Known
             /\ LET idx == keymap[r.ret.val]
                IN  /\ idx \in ready
                    /\ r.dag.vertices[idx].state = "Running"
                    /\ r.dag.ready = ready \ {idx}
                    /\ r.dag.visiting = visiting \cup {idx}
                    /\ r.dag.keymap = keymap
                    /\ DOMAIN r.dag.vertices = Idx
                    /\ \A i \in Idx \ {idx} : r.dag.vertices[i] = vertices[i]
                    /\ r.dag.vertices[idx] = [vertices[idx] EXCEPT !.state = "Running"]

\* visit_next() has returned every ready vertex: the ready set is empty while
\* vertices are being visited, and the next visit_next() returns None.
WitnessVisitNextNone ==
    /\ ready = {}
    /\ Cardinality(visiting) > 1
    /\ \A i \in visiting : vertices[i].state = "Running"
    /\ visit_next_results(Self) = {[dag |-> Self, ret |-> None]}

\* The keys of a sequence.
Range(keys) == {keys[n] : n \in 1 .. Len(keys)}

\* The positions of `keys` holding a key of the object or one that `keys`
\* holds at an earlier position.
Duplicates(keys) ==
    {n \in 1 .. Len(keys) : keys[n] \in Known \/ \E m \in 1 .. n - 1 : keys[m] = keys[n]}

\* The keys of `keys` before the first duplicate.
BeforeDuplicate(keys) ==
    IF Duplicates(keys) = {} THEN keys
    ELSE SubSeq(keys, 1, (CHOOSE n \in Duplicates(keys) :
                             \A m \in Duplicates(keys) : n <= m) - 1)

\* add_vertex(key) with a new key adds a Queued vertex without edges, with
\* counter 0, in the ready set; with a key of the object it returns the
\* duplicate-key error and changes nothing.
AddVertexEffect ==
    \A key \in Keys :
        LET r == add_vertex(Self, key)
        IN  IF key \in Known
            THEN r = [dag |-> Self, ret |-> Err("DuplicateKey")]
            ELSE /\ r.ret = Ok(Unit)
                 /\ DOMAIN r.dag.keymap = Known \cup {key}
                 /\ LET idx == r.dag.keymap[key]
                    IN  /\ idx \notin Idx
                        /\ DOMAIN r.dag.vertices = Idx \cup {idx}
                        /\ r.dag.vertices[idx] =
                              [id |-> key, children |-> {}, parents |-> {},
                               state |-> "Queued", parents_outstanding |-> 0]
                        /\ r.dag.ready = ready \cup {idx}
                        /\ r.dag.visiting = visiting
                 /\ \A i \in Idx : r.dag.vertices[i] = vertices[i]
                 /\ \A k \in Known : r.dag.keymap[k] = keymap[k]

\* add_vertices(keys) inserts the keys in order up to the first duplicate, at
\* which it returns the error; the keys before it stay inserted.
AddVerticesEffect ==
    \A keys \in KeySeqs :
        LET r == add_vertices(Self, keys)
            added == BeforeDuplicate(keys)
        IN  /\ r.ret = IF Duplicates(keys) = {} THEN Ok(Unit) ELSE Err("DuplicateKey")
            /\ DOMAIN r.dag.keymap = Known \cup Range(added)
            /\ \A n \in 1 .. Len(added) :
                  /\ r.dag.keymap[added[n]] = len(Self) + n - 1
                  /\ r.dag.vertices[len(Self) + n - 1] = Vertex_new(added[n])
            /\ \A k \in Known : r.dag.keymap[k] = keymap[k]
            /\ \A i \in Idx : r.dag.vertices[i] = vertices[i]

\* Each identifier is that of one vertex, each vertex has one identifier.
UniqueIdentifiers ==
    /\ \A k \in Known : keymap[k] \in Idx /\ vertices[keymap[k]].id = k
    /\ \A i \in Idx : vertices[i].id \in Known /\ keymap[vertices[i].id] = i

\* C18: add_vertex with a new key creates a Queued vertex with no edges and
\* counter 0 in the ready set; with an existing key it fails and changes
\* nothing, so identifiers are unique, and no call changes the index an
\* identifier is mapped to; add_vertices inserts in order and fails at the
\* first duplicate, the earlier keys of the batch staying inserted.
AddVertexContract ==
    /\ [](AddVertexEffect /\ AddVerticesEffect /\ UniqueIdentifiers)
    /\ [][\A k \in Known : k \in DOMAIN keymap' /\ keymap'[k] = keymap[k]]_vars

\* test::dag_construction: with vertices in the DAG, add_vertex of one of their
\* keys fails, and add_vertices of a new key followed by an old one fails with
\* the new key inserted.
WitnessDuplicateKey ==
    /\ Cardinality(Known) > 1
    /\ \E key \in Known : add_vertex(Self, key).ret = Err("DuplicateKey")
    /\ \E keys \in KeySeqs :
          /\ Len(keys) = 2
          /\ keys[1] \notin Known
          /\ keys[2] \in Known
          /\ add_vertices(Self, keys).ret = Err("DuplicateKey")
          /\ keys[1] \in DOMAIN add_vertices(Self, keys).dag.keymap

\* The vertices without parents whose state is Completed.
CompletedRoots(self) ==
    {i \in DOMAIN self.vertices :
        self.vertices[i].parents = {} /\ self.vertices[i].state = "Completed"}

ExecuteBeforeStop(n) ==
    /\ n \in 1 .. Len(posted)
    /\ posted[n].type = "ExecuteTask"
    /\ \A m \in 1 .. n - 1 : posted[m].type # "Stop"

\* The executor has received the message at position n.
Received(n) == n \in 1 .. Len(posted) - Len(exe_msgs)

\* The positions in `sent` of the messages sent on `chan` for the request n.
SentFor(n, chan) == {i \in 1 .. Len(sent) : sent[i].req = n /\ sent[i].chan = chan}

\* For the ExecuteTask at position n the executor has sent one
\* UpdateTaskState(Running) to the tracker and after it one ExecutionReport
\* with succeeded = true to the runner, both with the run_id and task_id of the
\* request, and no other message.
Reported(n) ==
    \E i \in 1 .. Len(sent), j \in 1 .. Len(sent) :
        /\ i < j
        /\ SentFor(n, "tracker") = {i}
        /\ SentFor(n, "runner") = {j}
        /\ SentFor(n, "response") = {}
        /\ sent[i].type = "UpdateTaskState" /\ sent[i].state = "Running"
        /\ sent[j].type = "ExecutionReport" /\ sent[j].succeeded
        /\ sent[i].run_id = posted[n].run_id /\ sent[i].task_id = posted[n].task_id
        /\ sent[j].run_id = posted[n].run_id /\ sent[j].task_id = posted[n].task_id

\* C20: the trivial executor answers every ExecuteTask it receives before a
\* Stop with one UpdateTaskState(Running) on the tracker channel and then one
\* ExecutionReport with succeeded = true and the same run_id and task_id on
\* the runner channel, however many tasks are queued: an ExecuteTask that was
\* received has exactly these two messages, one that was not has none, and
\* one sent before any Stop is received in the end.
LocalExecuteRoundTrip ==
    /\ [](\A n \in 1 .. Len(posted) :
             posted[n].type = "ExecuteTask" =>
                 IF Received(n)
                 THEN ExecuteBeforeStop(n) /\ Reported(n)
                 ELSE SentFor(n, "tracker") \cup SentFor(n, "runner") = {})
    /\ \A n \in 1 .. MaxMessages :
          ExecuteBeforeStop(n) ~> (Received(n) /\ Reported(n))

\* Several ExecuteTask messages were queued at once, for different tasks, and
\* each has its report; the Stop after them has ended the executor.
WitnessLocalRoundTrip ==
    /\ exe_pc = "returned"
    /\ Len(posted) = MaxMessages
    /\ posted[MaxMessages].type = "Stop"
    /\ \A n \in 1 .. MaxMessages - 1 : ExecuteBeforeStop(n) /\ Reported(n)
    /\ \E n \in 1 .. MaxMessages - 1 : posted[n].task_id # posted[1].task_id
    /\ Len(sent) = 2 * (MaxMessages - 1)

\* C29: on an acyclic graph has_path(src, dst) is Ok(true) exactly when dst is
\* src or is reached from src along the edges, Ok(false) for every other pair
\* of known keys, and an error whenever one of the two keys is unknown.
HasPathIsReachability ==
    \A src_key \in Keys, dst_key \in Keys :
        IF src_key \in Known /\ dst_key \in Known
        THEN has_path(Self, src_key, dst_key) =
                 Ok(\/ keymap[dst_key] = keymap[src_key]
                    \/ keymap[dst_key] \in Descendants(keymap[src_key]))
        ELSE has_path(Self, src_key, dst_key).tag = "Err"

\* A path of two edges that no single edge shortens: has_path finds it from
\* its source and denies it from its end.
WitnessHasPath ==
    \E a \in Known, b \in Known :
        \E m \in Idx :
            /\ m \in vertices[keymap[a]].children
            /\ keymap[b] \in vertices[m].children
            /\ keymap[b] \notin vertices[keymap[a]].children
            /\ has_path(Self, a, b) = Ok(TRUE)
            /\ has_path(Self, b, a) = Ok(FALSE)
            /\ has_path(Self, a, a) = Ok(TRUE)

\* The call returned an error and left the DAG as it was, or returned no error.
Harmless(r) == r.ret.tag = "Err" => r.dag = Self

\* C30: a DAG operation that returns an error (add_vertex, add_edge, has_path,
\* complete_visit, set_vertex_state) leaves the vertices, the edges, the
\* states, the counters and the ready and visiting sets as they were.
ErrorsLeaveDagUnchanged ==
    /\ \A k \in Keys : Harmless(add_vertex(Self, k))
    /\ \A k \in Keys, d \in Keys : Harmless(add_edge(Self, k, d))
    /\ \A k \in Keys, errored \in BOOLEAN :
          Harmless(complete_visit(Self, k, errored, overflow_checks))
    /\ \A k \in Keys, state \in State :
          Harmless(set_vertex_state(Self, k, state, overflow_checks))

\* The positions in `sent` of the ExecutionReports for the request n.
Reports(n) == {i \in SentFor(n, "runner") : sent[i].type = "ExecutionReport"}

\* The watchers spawned for the request n.
WatchersOf(n) == {w \in DOMAIN watchers : watchers[w].id = n}

\* The executor task has ended: it returned or panicked.
Ended == exe_pc \notin {"loop", "spawned"}

\* C21: in the cluster backend every ExecuteTask the executor has processed
\* has at most one ExecutionReport, and exactly one as soon as its path has
\* ended: the submission did not give a job to watch, or the watcher of its
\* job has stopped polling.
ExecuteReportedOnce ==
    backend = "cluster" =>
        \A n \in 1 .. Len(posted) :
            posted[n].type = "ExecuteTask" /\ Received(n) =>
                /\ Cardinality(Reports(n)) <= 1
                /\ WatchersOf(n) = {} => Cardinality(Reports(n)) = 1
                /\ \A w \in WatchersOf(n) :
                      watchers[w].pc # "watch" => Cardinality(Reports(n)) = 1

\* C22: every StopTask an executor of either backend has processed has
\* exactly one acknowledgement on its reply channel.
StopTaskAcknowledgedOnce ==
    \A n \in 1 .. Len(posted) :
        posted[n].type = "StopTask" /\ Received(n) =>
            Cardinality(SentFor(n, "response")) = 1

\* The StopTask messages processed for the key of the watcher w after the
\* ExecuteTask it was spawned for.
StopsFor(w) ==
    {n \in 1 .. Len(posted) :
        /\ posted[n].type = "StopTask"
        /\ posted[n].run_id = watchers[w].run_id
        /\ posted[n].task_id = watchers[w].task_id
        /\ n > watchers[w].id
        /\ Received(n)}

\* C23: however many StopTask messages name the key of a submitted job, its
\* watcher issues the remote DELETE at most once, and only after one of them.
AtMostOneDelete ==
    \A w \in DOMAIN watchers :
        /\ watchers[w].deletes <= 1
        /\ watchers[w].deletes = 1 => StopsFor(w) # {}

\* Two StopTask messages for the key of a job were processed while its
\* watcher polled, and the watcher has issued its one DELETE.
WitnessTwoStops ==
    \E w \in DOMAIN watchers :
        /\ Cardinality(StopsFor(w)) = 2
        /\ watchers[w].deletes = 1
        /\ watchers[w].pc = "watch"

\* The text the watcher puts in the executor field for a cluster fault.
ClusterIssue(state) == "Job failed due to potential cluster issue: " \o state

\* C24: what a poll that returns the job state `st` makes of a watcher whose
\* report can be delivered: COMPLETED a report with succeeded = true; FAILED,
\* CANCELLED, TIMEOUT, OOM a report with succeeded = false and an empty
\* executor field; NODE_FAIL, PREEMPTED, BOOT_FAIL, DEADLINE a report with
\* succeeded = false and the cluster-issue line naming the state; every other
\* state no report, the watcher polling on.
StateMapping ==
    \A w \in DOMAIN watchers :
        watchers[w].pc = "watch" /\ "runner" \in receivers =>
            \A st \in JobStates :
                LET r == watch_poll(watchers[w], [kind |-> "job", state |-> st], TRUE)
                    one == /\ Len(r.sends) = 1
                           /\ r.sends[1].type = "ExecutionReport"
                           /\ r.sends[1].chan = "runner"
                           /\ r.sends[1].req = watchers[w].id
                           /\ r.watcher.pc = "returned"
                IN  CASE st = "COMPLETED" ->
                            one /\ r.sends[1].succeeded /\ r.sends[1].executor = <<>>
                      [] st \in {"FAILED", "CANCELLED", "TIMEOUT", "OOM"} ->
                            one /\ ~r.sends[1].succeeded /\ r.sends[1].executor = <<>>
                      [] st \in {"NODE_FAIL", "PREEMPTED", "BOOT_FAIL", "DEADLINE"} ->
                            /\ one
                            /\ ~r.sends[1].succeeded
                            /\ r.sends[1].executor = <<ClusterIssue(st)>>
                      [] OTHER -> r.sends = <<>> /\ r.watcher = watchers[w]

\* One job was reported completed, another failed on a cluster fault, and a
\* third is still polled.
WitnessStateMapping ==
    /\ backend = "cluster"
    /\ \E i \in DOMAIN sent : sent[i].type = "ExecutionReport" /\ sent[i].succeeded
    /\ \E i \in DOMAIN sent :
          sent[i].type = "ExecutionReport" /\ sent[i].executor = <<ClusterIssue("NODE_FAIL")>>
    /\ \E w \in DOMAIN watchers : watchers[w].pc = "watch"

\* C25: the report a watcher sends at a terminal state of its job, a logical
\* failure or a cluster fault, has killed = true exactly when the watcher
\* issued the DELETE and got status 200 for it.
KilledIffDeleted ==
    backend = "cluster" =>
        \A i \in DOMAIN sent, w \in DOMAIN watchers :
            /\ sent[i].type = "ExecutionReport"
            /\ sent[i].req = watchers[w].id
            /\ sent[i].executor # <<"Unable to query job status">>
            => sent[i].killed = watchers[w].killed

\* The positions of the Stop messages sent to the executor.
Stops == {m \in 1 .. Len(posted) : posted[m].type = "Stop"}

\* C26: the loop of either executor receives the messages in the order they
\* were sent; it has ended once it has received a Stop; a message sent after
\* a Stop is never received, answered or watched; and a Stop that is sent
\* ends the loop.
StopEndsLoop ==
    /\ [](/\ exe_msgs = SubSeq(posted, Len(posted) - Len(exe_msgs) + 1, Len(posted))
          /\ \A m \in Stops : Received(m) => Ended
          /\ \A m \in Stops, n \in 1 .. Len(posted) :
                m < n => /\ ~Received(n)
                         /\ \A i \in DOMAIN sent : sent[i].req # n
                         /\ \A w \in DOMAIN watchers : watchers[w].id # n)
    /\ (Stops # {}) ~> Ended

\* The cluster executor answered a message, returned on the Stop behind it,
\* and left the message behind the Stop in the channel.
WitnessStopEndsLoop ==
    /\ backend = "cluster"
    /\ exe_pc = "returned"
    /\ Len(posted) = 3
    /\ posted[2].type = "Stop"
    /\ posted[3].type = "StopTask"
    /\ exe_msgs = <<posted[3]>>
    /\ \E i \in DOMAIN sent : sent[i].req = 1

SendFailuresTolerated ==
    backend = "cluster" =>
        \A i \in DOMAIN sent :
            ~sent[i].delivered =>
                /\ \A w \in WatchersOf(sent[i].req) :
                      sent[i].chan = "runner" => watchers[w].pc # "panicked"
                /\ exe_pc = "panicked" => Len(exe_msgs) < Len(posted) - sent[i].req

\* The key of the watcher w.
KeyOf(w) == <<watchers[w].run_id, watchers[w].task_id>>

\* The watcher w was spawned and its kill sender is not yet in the map: the
\* arm for ExecuteTask is between its spawn and its insert.
JustSpawned(w) == exe_pc = "spawned" /\ w = Len(watchers)

\* The StopTask at position n found the sender of the watcher w in the map:
\* it names the key of w, and between the ExecuteTask of w and it there is no
\* other StopTask for the key and no other job submitted for the key.
StoppedBy(w, n) ==
    /\ n \in StopsFor(w)
    /\ \A m \in StopsFor(w) : n <= m
    /\ \A v \in DOMAIN watchers :
          KeyOf(v) = KeyOf(w) => ~(watchers[w].id < watchers[v].id /\ watchers[v].id < n)

\* C31: the map holds for a key the kill sender of the watcher of the most
\* recent ExecuteTask submitted for it, until a StopTask for the key takes it;
\* the sender of every other polling watcher is gone, so a watcher replaced by
\* a second ExecuteTask of its key is never sent Kill, while the replacement
\* leaves it polling; Kill is sent only by a StopTask that finds the sender of a watcher
\* still polling, so a StopTask for a key that is unknown, already stopped or
\* whose watcher has ended changes no watcher; and a DELETE is issued only by
\* a watcher that was sent Kill.
KillChannelPerKey ==
    /\ [](backend = "cluster" =>
            /\ \A k \in DOMAIN running_tasks :
                  /\ running_tasks[k] \in DOMAIN watchers
                  /\ KeyOf(running_tasks[k]) = k
                  /\ StopsFor(running_tasks[k]) = {}
                  /\ \A v \in DOMAIN watchers :
                        KeyOf(v) = k /\ v > running_tasks[k] => JustSpawned(v)
            /\ \A w \in DOMAIN watchers :
                  /\ /\ watchers[w].pc = "watch"
                     /\ w \notin Held(running_tasks)
                     /\ ~JustSpawned(w)
                     => watchers[w].kill # "open"
                  /\ watchers[w].kill \in {"sent", "taken"} =>
                        \E n \in StopsFor(w) : StoppedBy(w, n)
                  /\ watchers[w].deletes > 0 => watchers[w].kill = "taken")
    /\ [][ClusterStopTask =>
            LET key == <<Head(exe_msgs).run_id, Head(exe_msgs).task_id>>
            IN  \A w \in DOMAIN watchers :
                    watchers'[w] # watchers[w] =>
                        /\ key \in DOMAIN running_tasks
                        /\ running_tasks[key] = w
                        /\ watchers[w].pc = "watch"
                        /\ watchers'[w] = [watchers[w] EXCEPT !.kill = "sent"]]_vars
    /\ [][ClusterExecuteNotify =>
            \A w \in DOMAIN watchers :
                /\ watchers'[w].pc = watchers[w].pc
                /\ watchers'[w].kill \in {watchers[w].kill, "dropped"}
                /\ watchers'[w].kill # watchers[w].kill =>
                      /\ KeyOf(w) = KeyOf(Len(watchers))
                      /\ running_tasks'[KeyOf(w)] = Len(watchers)]_vars

\* The same key was executed twice and then stopped: the second watcher was
\* sent Kill and issued the DELETE; the first, its sender dropped at the second
\* insert, issued none and has sent its own report.
WitnessKeyExecutedTwice ==
    /\ backend = "cluster"
    /\ Len(watchers) = 2
    /\ KeyOf(1) = KeyOf(2)
    /\ StopsFor(2) # {}
    /\ watchers[1].kill = "dropped" /\ watchers[1].deletes = 0
    /\ watchers[1].pc = "returned" /\ Reports(watchers[1].id) # {}
    /\ watchers[2].kill = "taken" /\ watchers[2].deletes = 1

=============================================================================
